---- MODULE Spec2Model ----
(***************************************************************************)
(* Model of DirectoryScanner (src/scanner_thread.py): the breadth-first    *)
(* directory walker, its top-K file ranking, its per-directory aggregate   *)
(* table, its progress snapshots and its cooperative cancellation.         *)
(*                                                                         *)
(* The engine thread is modelled statement group by statement group (pc);  *)
(* stop() is the one operation of the consumer thread and may interleave   *)
(* anywhere.  The filesystem is a fixed family of small trees; every       *)
(* filesystem call that the code guards with try/except may fail.          *)
(*                                                                         *)
(* Spec and FairSpec are the scanner under an arbitrary caller, RankSpec   *)
(* is its ranking called directly, and UISpec is the scanner as            *)
(* StorageScannerApp (src/ui_app.py) builds and drives it.                 *)
(***************************************************************************)
EXTENDS Integers, Sequences, FiniteSets, TLC

(***************************************************************************)
(* Bounds of the model.                                                    *)
(***************************************************************************)
MaxResultsBound == 2          \* max_results is drawn from 1..MaxResultsBound
MaxEveryDirs == 2             \* update_every_dirs is drawn from 1..MaxEveryDirs
MaxRealpathFailures == 1      \* os.path.realpath may raise this many times
MaxOffers == 4                \* direct calls of _update_top_files
MaxSize == 3                  \* sizes offered directly are drawn from 0..MaxSize
MaxFieldLen == 1              \* characters typed into the max-results field
MaxScans == 2                 \* scans the application starts

(***************************************************************************)
(* Constants of StorageScannerApp.start_scan.                              *)
(***************************************************************************)
MinResults == 5               \* `if max_results < 5: max_results = 5`
DefaultResults == 25          \* `except ValueError: max_results = 25`
UpdateEveryDirs == 25         \* update_every_dirs=25

(***************************************************************************)
(* The filesystem.  A path is a sequence of names; the root is <<>>.  A    *)
(* tree maps the canonical path of every real directory to the sequence of *)
(* its entries in os.scandir order.                                        *)
(***************************************************************************)
Dir(n) == [name |-> n, kind |-> "dir", target |-> <<>>, size |-> 0]
DirLink(n, t) == [name |-> n, kind |-> "dirlink", target |-> t, size |-> 0]
File(n, s) == [name |-> n, kind |-> "file", target |-> <<>>, size |-> s]
FileLink(n) == [name |-> n, kind |-> "filelink", target |-> <<>>, size |-> 0]

\* spec scenario "flat directory"
FlatTree ==
  (<<>> :> << File("f1", 10), File("f2", 50), File("f3", 5),
              File("f4", 100), File("f5", 20) >>)

\* spec scenario "nested, no cycle", with a symbolic link to a file added
NestedTree ==
  (<<>> :> << Dir("A"), Dir("B") >>)
  @@ (<<"A">> :> << File("a", 300) >>)
  @@ (<<"B">> :> << File("b", 10), FileLink("s") >>)

\* links back to ancestors: the root is reached again through A/up, and A is
\* discovered as a child twice, as A and as A/C/toA
LinkTree ==
  (<<>> :> << Dir("A") >>)
  @@ (<<"A">> :> << DirLink("up", <<>>), Dir("C"), File("a", 3) >>)
  @@ (<<"A", "C">> :> << DirLink("toA", <<"A">>) >>)

\* two levels below the root, no links
DeepTree ==
  (<<>> :> << Dir("A"), Dir("B") >>)
  @@ (<<"A">> :> << Dir("C") >>)
  @@ (<<"B">> :> << Dir("D") >>)
  @@ (<<"A", "C">> :> << >>)
  @@ (<<"B", "D">> :> << File("d", 1) >>)

\* a folder with one file and one subfolder holding another file
SmallTree ==
  (<<>> :> << Dir("A"), File("f", 2) >>)
  @@ (<<"A">> :> << File("g", 7) >>)

\* a folder deep enough for StorageScannerApp's scanner, which is built with
\* update_every_dirs=25, to send a snapshot before the final one: a chain
\* of folders below the root, file f in the root, file g in the last folder
ChainDepth == UpdateEveryDirs

Chain(n) == [i \in 1..n |-> "d"]

ChainTree ==
  [p \in { Chain(n) : n \in 0..ChainDepth } |->
     IF Len(p) = 0 THEN << Dir("d"), File("f", 2) >>
     ELSE IF Len(p) < ChainDepth THEN << Dir("d") >>
     ELSE << File("g", 7) >>]

Trees ==
  << FlatTree, NestedTree, LinkTree, DeepTree, SmallTree, ChainTree >>

\* the tree scanned by the application only
LongRoots == {Len(Trees)}

\* the trees a DirectoryScanner is constructed on directly
ScannerRoots == DOMAIN Trees \ LongRoots

DONE == << "(done)" >>        \* the sentinel current_dir of the final snapshot
FINISHED == "Scan finished."
STOPPED == "Scan stopped."

VARIABLES
  tree,                \* which filesystem the scan runs on
  max_results,         \* self.max_results
  update_every_dirs,   \* self.update_every_dirs
  stop_event,          \* self._stop_event
  dir_queue,           \* self._dir_queue
  scanned_dirs,        \* self.scanned_dirs
  scanned_files,       \* self.scanned_files
  dir_sizes,           \* self.dir_sizes, as the insertion-ordered items
  top_files,           \* self.top_files
  visited_realpaths,   \* self._visited_realpaths
  pc,                  \* position of the engine thread in _run
  dirs_since_update,   \* local of _run
  current_dir,         \* local of _run
  it,                  \* index of the next entry of the open scandir iterator
  updates,             \* the ScanUpdate values handed to on_update, in order
  done_msgs,           \* the messages handed to on_done, in order
  heap,                \* the list objects of the process, by identity
  top_files_ref,       \* the identity of the list self.top_files refers to
  ui,                  \* the fields of StorageScannerApp (src/ui_app.py)
  hist                 \* history of the run (observation only)

vars == << tree, max_results, update_every_dirs, stop_event, dir_queue,
           scanned_dirs, scanned_files, dir_sizes, top_files,
           visited_realpaths, pc, dirs_since_update, current_dir, it,
           updates, done_msgs, heap, top_files_ref, ui, hist >>

config == << tree, max_results, update_every_dirs >>
engine == << dir_queue, scanned_dirs, scanned_files, dir_sizes, top_files,
             visited_realpaths, heap, top_files_ref >>

FS == Trees[tree]

(***************************************************************************)
(* Pure helpers.                                                           *)
(***************************************************************************)
EntryNamed(node, n) ==
  FS[node][CHOOSE i \in 1..Len(FS[node]) : FS[node][i].name = n]

\* the directory a traversal path leads to, following directory links
RECURSIVE Resolve(_, _)
Resolve(node, rest) ==
  IF rest = <<>> THEN node
  ELSE LET e == EntryNamed(node, Head(rest))
       IN Resolve(IF e.kind = "dirlink" THEN e.target ELSE Append(node, e.name),
                  Tail(rest))

\* os.path.realpath(current_dir) when it does not raise
Realpath(path) == Resolve(<<>>, path)

\* the entries os.scandir(path) yields, in order
Scandir(path) == FS[Realpath(path)]

\* entry.is_dir(follow_symlinks=True) when it does not raise
IsDir(e) == e.kind \in {"dir", "dirlink"}

\* entry.is_file() with its default, follow_symlinks=True
IsFileFollowingLinks(e) == e.kind \in {"file", "filelink"}

\* entry.is_file(follow_symlinks=False) when it does not raise
IsFile(e) == e.kind = "file"

\* a descending sort that puts the later of two equal sizes first
InsertDescLaterFirst(sorted, x) ==
  LET k == Cardinality({i \in 1..Len(sorted) : sorted[i][2] > x[2]})
  IN SubSeq(sorted, 1, k) \o << x >> \o SubSeq(sorted, k + 1, Len(sorted))

\* list.sort(key=lambda x: x[1], reverse=True): a stable descending sort
InsertDesc(sorted, x) ==
  LET k == Cardinality({i \in 1..Len(sorted) : sorted[i][2] >= x[2]})
  IN SubSeq(sorted, 1, k) \o << x >> \o SubSeq(sorted, k + 1, Len(sorted))

RECURSIVE SortDesc(_)
SortDesc(s) ==
  IF s = <<>> THEN <<>>
  ELSE InsertDesc(SortDesc(SubSeq(s, 1, Len(s) - 1)), s[Len(s)])

\* _update_top_files without the sort
UpdateTopFilesNoSort(tf, file_path, size) ==
  LET appended == Append(tf, << file_path, size >>)
  IN IF Len(appended) > max_results THEN SubSeq(appended, 1, max_results)
     ELSE appended

\* _update_top_files ignoring the offer once the list is full
UpdateTopFilesDropsNew(tf, file_path, size) ==
  IF Len(tf) >= max_results THEN tf
  ELSE SortDesc(Append(tf, << file_path, size >>))

\* DirectoryScanner._update_top_files: the new value of self.top_files
UpdateTopFiles(tf, file_path, size) ==
  LET sorted == SortDesc(Append(tf, << file_path, size >>))
  IN IF Len(sorted) > max_results THEN SubSeq(sorted, 1, max_results)
     ELSE sorted

\* lines 76-79 on the heap: append and sort change the list object in place,
\* the slice of line 79 builds a new one
HeapAfterOffer(file_path, size) ==
  LET sorted == SortDesc(Append(heap[top_files_ref], << file_path, size >>))
      inplace == [heap EXCEPT ![top_files_ref] = sorted]
  IN IF Len(sorted) > max_results
       THEN Append(inplace, SubSeq(sorted, 1, max_results))
       ELSE inplace

\* line 79: self.top_files is rebound to the slice when the list grew past
\* max_results
RefAfterOffer ==
  IF Len(heap[top_files_ref]) + 1 > max_results THEN Len(heap) + 1
  ELSE top_files_ref

\* _get_top_dirs without the sort: the first max_results entries in
\* insertion order
GetTopDirsUnsorted ==
  IF Len(dir_sizes) > max_results THEN SubSeq(dir_sizes, 1, max_results)
  ELSE dir_sizes

\* DirectoryScanner._get_top_dirs
GetTopDirs ==
  LET items == SortDesc(dir_sizes)
  IN IF Len(items) > max_results THEN SubSeq(items, 1, max_results) ELSE items

\* the snapshot holding self.top_files itself instead of a copy of it
ListAlias(ref) == ref

\* list(self.top_files): the identity of the list the snapshot holds, a new
\* object (the one after the new top_dirs list)
ListCopy(ref) == Len(heap) + 2

\* the heap after _send_update built its two lists: the list _get_top_dirs
\* returns and the copy of self.top_files
HeapAfterSendUpdate == heap \o << GetTopDirs, heap[top_files_ref] >>

\* _send_update reporting the local dirs_since_update for self.scanned_dirs
ScanUpdateWrongCounter(cur) ==
  [current_dir |-> cur,
   scanned_dirs |-> dirs_since_update,
   scanned_files |-> scanned_files,
   top_dirs |-> GetTopDirs,
   top_files |-> top_files,
   top_dirs_ref |-> Len(heap) + 1,
   top_files_ref |-> ListCopy(top_files_ref)]

\* the ScanUpdate built by DirectoryScanner._send_update: the values it
\* holds when it is built, and the identities of its two lists
ScanUpdate(cur) ==
  [current_dir |-> cur,
   scanned_dirs |-> scanned_dirs,
   scanned_files |-> scanned_files,
   top_dirs |-> GetTopDirs,
   top_files |-> top_files,
   top_dirs_ref |-> Len(heap) + 1,
   top_files_ref |-> ListCopy(top_files_ref)]

\* `current_dir in self.dir_sizes`
InDirSizes(d) == \E i \in 1..Len(dir_sizes) : dir_sizes[i][1] = d

\* no entry made at the visit: a directory enters the table with its first
\* file
EnsureEntryLazy(d) == dir_sizes

\* `if current_dir not in self.dir_sizes: self.dir_sizes[current_dir] = 0`
EnsureEntry(d) ==
  IF InDirSizes(d) THEN dir_sizes ELSE Append(dir_sizes, << d, 0 >>)

\* the size added to the directory and to every directory above it, a
\* recursive subtree total
AddToDirRecursive(d, size) ==
  [i \in 1..Len(dir_sizes) |->
     IF /\ Len(dir_sizes[i][1]) <= Len(d)
        /\ SubSeq(d, 1, Len(dir_sizes[i][1])) = dir_sizes[i][1]
       THEN << dir_sizes[i][1], dir_sizes[i][2] + size >>
       ELSE dir_sizes[i]]

\* the size added to the entry of the root, whatever the directory
AddToDirOfRoot(d, size) ==
  [i \in 1..Len(dir_sizes) |->
     IF i = 1 THEN << dir_sizes[i][1], dir_sizes[i][2] + size >>
     ELSE dir_sizes[i]]

\* self.dir_sizes[d] += size
AddToDir(d, size) ==
  [i \in 1..Len(dir_sizes) |->
     IF dir_sizes[i][1] = d THEN << d, dir_sizes[i][2] + size >>
     ELSE dir_sizes[i]]

\* the visited check always answering "not visited"
AlreadyVisitedNever(real) == FALSE

\* `real in self._visited_realpaths`
AlreadyVisited(real) == real \in visited_realpaths

\* the while condition testing the stop event only once a directory was
\* scanned, as a loop with its test at the end would
LoopConditionAfterFirst ==
  dir_queue # <<>> /\ (~stop_event \/ scanned_dirs = 0)

\* the while condition without the test of the stop event
LoopConditionNoStop == dir_queue # <<>>

\* the condition of the while loop of _run
LoopCondition == dir_queue # <<>> /\ ~stop_event

\* the per-entry check left out
EntryStopCheckMissing == FALSE

\* line 122: the per-entry check of the stop event
EntryStopCheck == stop_event

\* the cadence test with > for >=
UpdateDueLate == dirs_since_update > update_every_dirs

\* the condition under which _run sends a periodic update
UpdateDue == dirs_since_update >= update_every_dirs

\* the argument _run passes to on_done
DoneMessage == IF stop_event THEN STOPPED ELSE FINISHED

\* the directory an entry of directory `node` leads to
Child(node, e) == IF e.kind = "dirlink" THEN e.target ELSE Append(node, e.name)

Children(node) ==
  { Child(node, FS[node][i]) : i \in {j \in 1..Len(FS[node]) : IsDir(FS[node][j])} }

RECURSIVE Closure(_)
Closure(S) ==
  LET T == S \cup UNION { Children(n) : n \in S }
  IN IF T = S THEN S ELSE Closure(T)

\* the distinct canonical directories reachable from the root
CanonicalDirs == Closure({ <<>> })

IsPrefix(a, b) == Len(a) <= Len(b) /\ SubSeq(b, 1, Len(a)) = a

\* the tree has a directory link that points back to an ancestor
HasLinkToAncestor ==
  \E n \in DOMAIN FS : \E i \in 1..Len(FS[n]) :
     FS[n][i].kind = "dirlink" /\ IsPrefix(FS[n][i].target, n)

\* get of a LifoQueue: the newest path and the queue without it
GetNewest(q) == << q[Len(q)], SubSeq(q, 1, Len(q) - 1) >>

\* `self._dir_queue.get()` of a queue.Queue: the oldest path and the queue
\* without it
Get(q) == << Head(q), Tail(q) >>

\* a put that leaves out a directory already visited or already queued
PutUnlessSeen(path) ==
  IF \/ Realpath(path) \in visited_realpaths
     \/ \E i \in 1..Len(dir_queue) : Realpath(dir_queue[i]) = Realpath(path)
    THEN dir_queue
    ELSE Append(dir_queue, path)

\* `self._dir_queue.put(entry.path)`
Put(path) == Append(dir_queue, path)

\* a counter of the history that counts only what happens after stop()
AfterStop(n) == IF stop_event THEN n + 1 ELSE n

\* some queued path leads to a directory that has not been visited
PendingUnvisited ==
  \E i \in 1..Len(dir_queue) : Realpath(dir_queue[i]) \notin visited_realpaths

\* the fields of StorageScannerApp when no application is modelled
NoUI == [scanner |-> FALSE]

\* the history of a scan that has not begun
InitialHist ==
  [realpath_failures |-> 0, failed |-> FALSE, exit |-> "none",
   broke |-> FALSE, visits |-> <<>>, discards |-> 0,
   stopped_late |-> FALSE, pending_at_stop |-> FALSE,
   two_left_at_stop |-> FALSE, dirs_after_stop |-> 0,
   entries_after_stop |-> 0, files_after_stop |-> 0,
   puts_after_stop |-> 0, offers |-> <<>>, event |-> "none",
   root_failed |-> FALSE, trashed |-> {}, discarded |-> <<>>,
   stopped_early |-> FALSE]

(***************************************************************************)
(* Initial state: a constructed DirectoryScanner, thread not started.      *)
(***************************************************************************)
Init ==
  /\ tree \in ScannerRoots
  /\ max_results \in 1..MaxResultsBound
  /\ update_every_dirs \in 1..MaxEveryDirs
  /\ stop_event = FALSE
  /\ dir_queue = << <<>> >>
  /\ scanned_dirs = 0
  /\ scanned_files = 0
  /\ dir_sizes = <<>>
  /\ top_files = <<>>
  /\ visited_realpaths = {}
  /\ pc = "new"
  /\ dirs_since_update = 0
  /\ current_dir = <<>>
  /\ it = 0
  /\ updates = <<>>
  /\ done_msgs = <<>>
  /\ heap = << <<>> >>
  /\ top_files_ref = 1
  /\ ui = NoUI
  /\ hist = InitialHist

(***************************************************************************)
(* Consumer thread.                                                        *)
(***************************************************************************)
\* the thread has not performed its first test of the while condition: it
\* was not started, or stands before the test without a directory dequeued
BeforeFirstLoopCheck ==
  \/ pc = "new"
  \/ (pc = "loop" /\ hist.visits = <<>> /\ hist.exit = "none")

\* DirectoryScanner.stop
Stop ==
  /\ ~stop_event
  /\ stop_event' = TRUE
  /\ hist' = [hist EXCEPT
                !.stopped_late = (pc = "finished"),
                !.stopped_early = BeforeFirstLoopCheck,
                !.pending_at_stop = PendingUnvisited,
                !.two_left_at_stop =
                   (Cardinality(CanonicalDirs \ visited_realpaths) >= 2)]
  /\ UNCHANGED << config, ui, engine, pc, dirs_since_update, current_dir, it,
                  updates, done_msgs >>

(***************************************************************************)
(* Engine thread: DirectoryScanner.start and the steps of _run.            *)
(***************************************************************************)
\* Start clearing the stop event, as a scanner made to be restarted would
StartClearsStop ==
  /\ pc = "new"
  /\ pc' = "loop"
  /\ dirs_since_update' = 0
  /\ stop_event' = FALSE
  /\ UNCHANGED << config, ui, engine, current_dir, it, updates, done_msgs,
                  hist >>

\* start(): the thread begins _run with dirs_since_update = 0
Start ==
  /\ pc = "new"
  /\ pc' = "loop"
  /\ dirs_since_update' = 0
  /\ UNCHANGED << config, ui, stop_event, engine, current_dir, it, updates,
                  done_msgs, hist >>

\* line 100: the while condition
LoopCheck ==
  /\ pc = "loop"
  /\ IF LoopCondition
       THEN pc' = "get" /\ hist' = hist
       ELSE /\ pc' = "final"
            /\ hist' = [hist EXCEPT !.exit =
                          IF dir_queue = <<>> THEN "exhausted" ELSE "cancelled"]
  /\ UNCHANGED << config, ui, stop_event, engine, dirs_since_update, current_dir,
                  it, updates, done_msgs >>

\* Dequeue with scanned_dirs incremented before the visited check
DequeueCountsDuplicates ==
  /\ pc = "get"
  /\ \E ok \in BOOLEAN :
       /\ ~ok => hist.realpath_failures < MaxRealpathFailures
       /\ LET d == Head(dir_queue)
              real == IF ok THEN Realpath(d) ELSE d
              h == IF ok THEN hist
                   ELSE [hist EXCEPT !.realpath_failures = @ + 1,
                                     !.failed = TRUE]
          IN /\ dir_queue' = Tail(dir_queue)
             /\ current_dir' = d
             /\ scanned_dirs' = scanned_dirs + 1
             /\ IF AlreadyVisited(real)
                  THEN /\ pc' = "loop"
                       /\ hist' = [h EXCEPT !.discards = @ + 1,
                                           !.discarded = Append(@, d)]
                       /\ UNCHANGED << visited_realpaths, dirs_since_update,
                                       dir_sizes >>
                  ELSE /\ visited_realpaths' = visited_realpaths \cup {real}
                       /\ dirs_since_update' = dirs_since_update + 1
                       /\ dir_sizes' = IF InDirSizes(d) THEN dir_sizes
                                       ELSE Append(dir_sizes, << d, 0 >>)
                       /\ pc' = "scandir"
                       /\ hist' = [h EXCEPT
                                     !.visits =
                                        Append(@, [path |-> d, real |-> real]),
                                     !.dirs_after_stop = AfterStop(@)]
  /\ UNCHANGED << config, ui, stop_event, scanned_files, top_files, heap,
                  top_files_ref, it, updates, done_msgs >>

\* lines 101-117: dequeue, resolve, visited check, count, aggregate entry
Dequeue ==
  /\ pc = "get"
  /\ \E ok \in BOOLEAN :
       /\ ~ok => hist.realpath_failures < MaxRealpathFailures
       /\ LET d == Get(dir_queue)[1]
              real == IF ok THEN Realpath(d) ELSE d
              h == IF ok THEN hist
                   ELSE [hist EXCEPT !.realpath_failures = @ + 1,
                                     !.failed = TRUE]
          IN /\ dir_queue' = Get(dir_queue)[2]
             /\ current_dir' = d
             /\ IF AlreadyVisited(real)
                  THEN /\ pc' = "loop"
                       /\ hist' = [h EXCEPT !.discards = @ + 1,
                                           !.discarded = Append(@, d)]
                       /\ UNCHANGED << visited_realpaths, scanned_dirs,
                                       dirs_since_update, dir_sizes >>
                  ELSE /\ visited_realpaths' = visited_realpaths \cup {real}
                       /\ scanned_dirs' = scanned_dirs + 1
                       /\ dirs_since_update' = dirs_since_update + 1
                       /\ dir_sizes' = EnsureEntry(d)
                       /\ pc' = "scandir"
                       /\ hist' = [h EXCEPT
                                     !.visits =
                                        Append(@, [path |-> d, real |-> real]),
                                     !.dirs_after_stop = AfterStop(@)]
  /\ UNCHANGED << config, ui, stop_event, scanned_files, top_files, heap,
                  top_files_ref, it, updates, done_msgs >>

\* ScandirOpen without the try/except around os.scandir: the exception ends
\* the thread
ScandirOpenUncaught ==
  /\ pc = "scandir"
  /\ \E ok \in BOOLEAN :
       IF ok THEN /\ pc' = "iter"
                  /\ it' = 1
                  /\ hist' = [hist EXCEPT !.event = "opened"]
             ELSE /\ pc' = "dead"
                  /\ it' = 0
                  /\ hist' = [hist EXCEPT !.failed = TRUE,
                                          !.event = "open_failed",
                                          !.root_failed = @ \/ current_dir = <<>>]
  /\ UNCHANGED << config, ui, stop_event, engine, dirs_since_update, current_dir,
                  updates, done_msgs >>

\* ScandirOpen taking back the count and the aggregate entry of a directory
\* whose os.scandir raised
ScandirOpenUncounts ==
  /\ pc = "scandir"
  /\ \E ok \in BOOLEAN :
       IF ok THEN /\ pc' = "iter"
                  /\ it' = 1
                  /\ hist' = [hist EXCEPT !.event = "opened"]
                  /\ UNCHANGED << scanned_dirs, dir_sizes >>
             ELSE /\ pc' = "after"
                  /\ it' = 0
                  /\ scanned_dirs' = scanned_dirs - 1
                  /\ dir_sizes' = SubSeq(dir_sizes, 1, Len(dir_sizes) - 1)
                  /\ hist' = [hist EXCEPT !.failed = TRUE,
                                          !.event = "open_failed",
                                          !.root_failed = @ \/ current_dir = <<>>]
  /\ UNCHANGED << config, ui, stop_event, dir_queue, scanned_files, top_files,
                  visited_realpaths, heap, top_files_ref, dirs_since_update,
                  current_dir, updates, done_msgs >>

\* line 120: os.scandir(current_dir), which may raise
ScandirOpen ==
  /\ pc = "scandir"
  /\ \E ok \in BOOLEAN :
       IF ok THEN /\ pc' = "iter"
                  /\ it' = 1
                  /\ hist' = [hist EXCEPT !.event = "opened"]
             ELSE /\ pc' = "after"
                  /\ it' = 0
                  /\ hist' = [hist EXCEPT !.failed = TRUE,
                                          !.event = "open_failed",
                                          !.root_failed = @ \/ current_dir = <<>>]
  /\ UNCHANGED << config, ui, stop_event, engine, dirs_since_update, current_dir,
                  updates, done_msgs >>

\* IterNext with the try/except around the whole loop: a failure of the
\* iterator ends the scan
IterNextFailureEndsScan ==
  /\ pc = "iter"
  /\ IF it > Len(Scandir(current_dir))
       THEN /\ pc' = "after"
            /\ it' = 0
            /\ hist' = [hist EXCEPT !.event = "exhausted"]
       ELSE \/ /\ pc' = "final"
               /\ it' = 0
               /\ hist' = [hist EXCEPT !.failed = TRUE,
                                       !.event = "iter_failed"]
            \/ IF EntryStopCheck
                 THEN /\ pc' = "after"
                      /\ it' = 0
                      /\ hist' = [hist EXCEPT !.broke = TRUE,
                                              !.event = "broke"]
                 ELSE /\ pc' = "entry"
                      /\ it' = it
                      /\ hist' = [hist EXCEPT !.event = "yielded"]
  /\ UNCHANGED << config, ui, stop_event, engine, dirs_since_update, current_dir,
                  updates, done_msgs >>

\* lines 121-123: next entry of the iterator (which may raise), then the
\* per-entry check of the stop event
IterNext ==
  /\ pc = "iter"
  /\ IF it > Len(Scandir(current_dir))
       THEN /\ pc' = "after"
            /\ it' = 0
            /\ hist' = [hist EXCEPT !.event = "exhausted"]
       ELSE \/ /\ pc' = "after"
               /\ it' = 0
               /\ hist' = [hist EXCEPT !.failed = TRUE,
                                       !.event = "iter_failed"]
            \/ IF EntryStopCheck
                 THEN /\ pc' = "after"
                      /\ it' = 0
                      /\ hist' = [hist EXCEPT !.broke = TRUE,
                                              !.event = "broke"]
                 ELSE /\ pc' = "entry"
                      /\ it' = it
                      /\ hist' = [hist EXCEPT !.event = "yielded"]
  /\ UNCHANGED << config, ui, stop_event, engine, dirs_since_update, current_dir,
                  updates, done_msgs >>

\* ProcessEntry counting the file before stat(): a stat() that raises leaves
\* a counted file without an added size
ProcessEntryCountsBeforeStat ==
  /\ pc = "entry"
  /\ pc' = "iter"
  /\ it' = it + 1
  /\ LET e == Scandir(current_dir)[it]
         path == Append(current_dir, e.name)
         h == [hist EXCEPT !.entries_after_stop = AfterStop(@)]
     IN \/ /\ hist' = [h EXCEPT !.failed = TRUE, !.event = "entry_failed"]
           /\ scanned_files' =
                IF ~IsDir(e) /\ IsFile(e) THEN scanned_files + 1
                ELSE scanned_files
           /\ UNCHANGED << dir_queue, scanned_dirs, dir_sizes, top_files,
                           visited_realpaths, heap, top_files_ref >>
        \/ /\ IsDir(e)
           /\ dir_queue' = Append(dir_queue, path)
           /\ hist' = [h EXCEPT !.puts_after_stop = AfterStop(@),
                                !.event = "enqueued"]
           /\ UNCHANGED << scanned_dirs, scanned_files, dir_sizes, top_files,
                           visited_realpaths, heap, top_files_ref >>
        \/ /\ ~IsDir(e)
           /\ IsFile(e)
           /\ scanned_files' = scanned_files + 1
           /\ dir_sizes' = AddToDir(current_dir, e.size)
           /\ top_files' = UpdateTopFiles(top_files, path, e.size)
           /\ heap' = HeapAfterOffer(path, e.size)
           /\ top_files_ref' = RefAfterOffer
           /\ hist' = [h EXCEPT !.files_after_stop = AfterStop(@),
                                !.offers = Append(@, e.size),
                                !.event = "counted"]
           /\ UNCHANGED << dir_queue, scanned_dirs, visited_realpaths >>
        \/ /\ ~IsDir(e)
           /\ ~IsFile(e)
           /\ hist' = [h EXCEPT !.event = "ignored"]
           /\ UNCHANGED engine
  /\ UNCHANGED << config, ui, stop_event, dirs_since_update, current_dir, updates,
                  done_msgs >>

\* lines 131-146: classify one entry; enqueue a directory or count a file
ProcessEntry ==
  /\ pc = "entry"
  /\ pc' = "iter"
  /\ it' = it + 1
  /\ LET e == Scandir(current_dir)[it]
         path == Append(current_dir, e.name)
         h == [hist EXCEPT !.entries_after_stop = AfterStop(@)]
     IN \/ \* is_dir, is_file or stat raises: the entry is skipped
           /\ hist' = [h EXCEPT !.failed = TRUE, !.event = "entry_failed"]
           /\ UNCHANGED engine
        \/ /\ IsDir(e)
           /\ dir_queue' = Put(path)
           /\ hist' = [h EXCEPT !.puts_after_stop = AfterStop(@),
                                !.event = "enqueued"]
           /\ UNCHANGED << scanned_dirs, scanned_files, dir_sizes, top_files,
                           visited_realpaths, heap, top_files_ref >>
        \/ /\ ~IsDir(e)
           /\ IsFile(e)
           /\ scanned_files' = scanned_files + 1
           /\ dir_sizes' = AddToDir(current_dir, e.size)
           /\ top_files' = UpdateTopFiles(top_files, path, e.size)
           /\ heap' = HeapAfterOffer(path, e.size)
           /\ top_files_ref' = RefAfterOffer
           /\ hist' = [h EXCEPT !.files_after_stop = AfterStop(@),
                                !.offers = Append(@, e.size),
                                !.event = "counted"]
           /\ UNCHANGED << dir_queue, scanned_dirs, visited_realpaths >>
        \/ /\ ~IsDir(e)
           /\ ~IsFile(e)
           /\ hist' = [h EXCEPT !.event = "ignored"]
           /\ UNCHANGED engine
  /\ UNCHANGED << config, ui, stop_event, dirs_since_update, current_dir, updates,
                  done_msgs >>

\* lines 152-154: the periodic update
AfterDir ==
  /\ pc = "after"
  /\ pc' = "loop"
  /\ IF UpdateDue
       THEN /\ dirs_since_update' = 0
            /\ updates' = Append(updates, ScanUpdate(current_dir))
            /\ heap' = HeapAfterSendUpdate
       ELSE UNCHANGED << dirs_since_update, updates, heap >>
  /\ UNCHANGED << config, ui, stop_event, dir_queue, scanned_dirs,
                  scanned_files, dir_sizes, top_files, visited_realpaths,
                  top_files_ref, current_dir, it, done_msgs, hist >>

\* FinalUpdate sending current_dir in place of the sentinel
FinalUpdateNamesDir ==
  /\ pc = "final"
  /\ pc' = "done"
  /\ updates' = Append(updates, ScanUpdate(current_dir))
  /\ heap' = HeapAfterSendUpdate
  /\ UNCHANGED << config, ui, stop_event, dir_queue, scanned_dirs,
                  scanned_files, dir_sizes, top_files, visited_realpaths,
                  top_files_ref, dirs_since_update, current_dir, it,
                  done_msgs, hist >>

\* FinalUpdate without the call of _send_update
FinalUpdateMissing ==
  /\ pc = "final"
  /\ pc' = "done"
  /\ UNCHANGED << config, ui, stop_event, engine, dirs_since_update, current_dir,
                  it, updates, done_msgs, hist >>

\* line 156: the final update
FinalUpdate ==
  /\ pc = "final"
  /\ pc' = "done"
  /\ updates' = Append(updates, ScanUpdate(DONE))
  /\ heap' = HeapAfterSendUpdate
  /\ UNCHANGED << config, ui, stop_event, dir_queue, scanned_dirs,
                  scanned_files, dir_sizes, top_files, visited_realpaths,
                  top_files_ref, dirs_since_update, current_dir, it,
                  done_msgs, hist >>

\* line 157: on_done
Done ==
  /\ pc = "done"
  /\ pc' = "finished"
  /\ done_msgs' = Append(done_msgs, DoneMessage)
  /\ UNCHANGED << config, ui, stop_event, engine, dirs_since_update, current_dir,
                  it, updates, hist >>

Engine ==
  \/ Start
  \/ LoopCheck
  \/ Dequeue
  \/ ScandirOpen
  \/ IterNext
  \/ ProcessEntry
  \/ AfterDir
  \/ FinalUpdate
  \/ Done

Next == Engine \/ Stop

Spec == Init /\ [][Next]_vars

\* the positions of the engine thread
PcValues ==
  {"new", "loop", "get", "scandir", "iter", "entry", "after", "final", "done",
   "finished"}

\* the engine thread has a next statement to execute
EngineEnabled == pc \in PcValues \ {"finished"}

\* A step of the engine thread as it shows on pc: every action of Engine
\* moves pc, and stop() does not.
EngineStep == EngineEnabled /\ pc' \in PcValues /\ pc' # pc

\* EngineStep and EngineEnabled describe Engine
EngineStepIsEngine == [][(EngineEnabled /\ pc' # pc) <=> Engine]_vars
EngineEnabledIsEnabled == EngineEnabled <=> ENABLED <<Engine>>_vars

\* The scanner runs on a thread of its own that the operating system keeps
\* scheduling: weak fairness of the steps of the engine.
FairSpec == Spec /\ WF_pc(EngineStep)

TypeOK ==
  /\ stop_event \in BOOLEAN
  /\ scanned_dirs \in Nat
  /\ scanned_files \in Nat
  /\ pc \in PcValues

(***************************************************************************)
(* Observations used by the properties.                                    *)
(***************************************************************************)
Finished == pc = "finished"

\* positions in `updates` of the snapshots that carry the sentinel
Sentinels == { i \in 1..Len(updates) : updates[i].current_dir = DONE }

\* the periodic (non-final) snapshots, in order
IsPeriodic(u) == u.current_dir # DONE
Periodic == SelectSeq(updates, IsPeriodic)

LastUpdate == updates[Len(updates)]

\* the scan was cut short by the cancellation signal
CutShort == hist.exit = "cancelled" \/ hist.broke

NoKeyTwice ==
  /\ Len(hist.visits) = scanned_dirs
  /\ \A i, j \in 1..Len(hist.visits) :
       i # j => hist.visits[i].real # hist.visits[j].real

\* the key the dequeue step computes: realpath, or the path when it failed
DequeuedKey ==
  IF hist'.realpath_failures = hist.realpath_failures
    THEN Realpath(Head(dir_queue)) ELSE Head(dir_queue)

DiscardFrame ==
  (pc = "get" /\ pc' # "get" /\ (AlreadyVisited(DequeuedKey) \/ pc' = "loop"))
    => /\ pc' = "loop"
       /\ AlreadyVisited(DequeuedKey)
       /\ dir_queue' = Tail(dir_queue)
       /\ UNCHANGED << scanned_dirs, scanned_files, dir_sizes, top_files,
                       visited_realpaths, updates >>

SentinelProtocol ==
  /\ Sentinels \subseteq { Len(updates) }
  /\ Len(done_msgs) <= 1
  /\ done_msgs # <<>> => Sentinels = { Len(updates) } /\ updates # <<>>
  /\ Finished => Len(done_msgs) = 1

C4_SentinelLast ==
  /\ []SentinelProtocol
  /\ [][done_msgs # <<>> => updates' = updates]_vars
  /\ <>(Finished /\ Sentinels = { Len(updates) } /\ updates # <<>>)

C4_Witness ==
  /\ Finished
  /\ Len(updates) >= 3
  /\ Sentinels = { Len(updates) }
  /\ Len(done_msgs) = 1

(***************************************************************************)
(* C5: with update_every_dirs = N, a periodic snapshot is emitted exactly  *)
(* after every Nth newly visited directory, discarded duplicates not       *)
(* counting: the i-th periodic snapshot carries scanned_dirs = i * N (a    *)
(* positive multiple of N, N more than its predecessor), and none is       *)
(* missing once the engine is back at the top of its loop.                 *)
(***************************************************************************)
AtLoopTop == pc \in {"new", "loop", "get", "final", "done", "finished"}

C5_Cadence ==
  /\ \A i \in 1..Len(Periodic) :
       Periodic[i].scanned_dirs = i * update_every_dirs
  /\ AtLoopTop => Len(Periodic) = scanned_dirs \div update_every_dirs
  /\ ~AtLoopTop => Len(Periodic) = (scanned_dirs - 1) \div update_every_dirs

\* A/up was discarded between the two periodic snapshots
C5_Witness ==
  /\ update_every_dirs = 2
  /\ Len(Periodic) = 2
  /\ Periodic[2].current_dir = << "A", "C", "toA" >>
  /\ hist.discards >= 1
  /\ Finished

(***************************************************************************)
(* C6 as stated: of any two consecutive snapshots, the final one included, *)
(* the later has a strictly larger scanned_dirs.                           *)
(***************************************************************************)
C6_Original ==
  \A i \in 1..(Len(updates) - 1) :
    updates[i + 1].scanned_dirs > updates[i].scanned_dirs

(***************************************************************************)
(* C6 amended: snapshots are produced in order with strictly increasing    *)
(* scanned_dirs among the periodic ones; the final sentinel snapshot has a *)
(* scanned_dirs at least that of the snapshot before it, and equal to it   *)
(* when no directory was visited after the last periodic snapshot.         *)
(***************************************************************************)
C6_Increasing ==
  \A i \in 1..(Len(updates) - 1) :
    /\ IsPeriodic(updates[i])
    /\ IF IsPeriodic(updates[i + 1])
         THEN updates[i + 1].scanned_dirs > updates[i].scanned_dirs
         ELSE /\ updates[i + 1].scanned_dirs >= updates[i].scanned_dirs
              /\ (updates[i + 1].scanned_dirs = updates[i].scanned_dirs)
                   <=> (dirs_since_update = 0)

C6_Witness ==
  /\ Finished
  /\ Len(updates) = 3
  /\ updates[3].scanned_dirs = updates[2].scanned_dirs
  /\ updates[2].scanned_dirs > updates[1].scanned_dirs

(***************************************************************************)
(* C7: on_done reports natural completion whenever the loop ended because  *)
(* the queue was exhausted with nothing cut short, and reports "stopped"   *)
(* only when the scan was cut short by the cancellation signal.            *)
(***************************************************************************)
C7_MessageMatchesOutcome ==
  Finished =>
    /\ (hist.exit = "exhausted" /\ ~hist.broke) => done_msgs = << FINISHED >>
    /\ done_msgs = << STOPPED >> => CutShort

\* stop() was called before on_done read the flag
StoppedBeforeDone == stop_event /\ ~hist.stopped_late

\* What the code does: the message follows the flag as on_done finds it.
MessageFollowsFlag ==
  /\ Finished =>
       /\ done_msgs = << IF StoppedBeforeDone THEN STOPPED ELSE FINISHED >>
       /\ CutShort => done_msgs = << STOPPED >>
  /\ CutShort => stop_event

\* A scan that exhausted its queue, cut nothing short, and reports "stopped".
ExhaustedButStopped ==
  /\ Finished
  /\ hist.exit = "exhausted"
  /\ ~hist.broke
  /\ done_msgs = << STOPPED >>

(***************************************************************************)
(* C8 as stated: when stop() is called while a not-yet-visited canonical   *)
(* directory is pending in the queue, the scan ends with "stopped" and the *)
(* final snapshot's scanned_dirs is strictly less than the number of       *)
(* canonical directories of the tree.                                      *)
(***************************************************************************)
C8_Original ==
  (Finished /\ stop_event /\ hist.pending_at_stop)
    => /\ done_msgs = << STOPPED >>
       /\ LastUpdate.scanned_dirs < Cardinality(CanonicalDirs)

(***************************************************************************)
(* C8 amended: when stop() is called while a not-yet-visited canonical     *)
(* directory is pending in the queue, the scan ends with "stopped" and     *)
(* the final snapshot's scanned_dirs is at most one more than scanned_dirs *)
(* was at the call; it is strictly less than the number of canonical       *)
(* directories of the tree when at least two of them were unvisited at the *)
(* call and no realpath call failed.                                       *)
(***************************************************************************)
C8_StoppedShort ==
  (Finished /\ stop_event /\ hist.pending_at_stop)
    => /\ done_msgs = << STOPPED >>
       /\ LastUpdate.scanned_dirs = scanned_dirs
       /\ hist.dirs_after_stop <= 1
       /\ (hist.two_left_at_stop /\ hist.realpath_failures = 0)
            => LastUpdate.scanned_dirs < Cardinality(CanonicalDirs)

C8_Witness ==
  /\ Finished
  /\ stop_event
  /\ hist.pending_at_stop
  /\ hist.two_left_at_stop
  /\ Len(updates) = 2
  /\ hist.dirs_after_stop = 1
  /\ LastUpdate.scanned_dirs < Cardinality(CanonicalDirs)

(***************************************************************************)
(* C9: from the moment stop() sets the signal the engine starts visiting   *)
(* at most one further directory and classifies at most one further entry  *)
(* (at most one further file counted, at most one further path enqueued),  *)
(* and then delivers the final snapshot and on_done.                       *)
(***************************************************************************)
CancellationBound ==
  /\ hist.dirs_after_stop <= 1
  /\ hist.entries_after_stop <= 1
  /\ hist.files_after_stop + hist.puts_after_stop <= hist.entries_after_stop

C9_BoundedCancellation ==
  /\ []CancellationBound
  /\ stop_event ~> (Finished /\ Sentinels = { Len(updates) }
                             /\ Len(done_msgs) = 1)

C9_Witness ==
  /\ Finished
  /\ StoppedBeforeDone
  /\ hist.entries_after_stop = 1
  /\ hist.puts_after_stop = 1
  /\ hist.exit = "cancelled"

(***************************************************************************)
(* C10: top_files never holds more than max_results entries and is sorted  *)
(* by size in non-increasing order, in every state of the engine and in    *)
(* every snapshot it emitted.                                              *)
(***************************************************************************)
BoundedSortedDesc(tf) ==
  /\ Len(tf) <= max_results
  /\ \A i \in 1..(Len(tf) - 1) : tf[i][2] >= tf[i + 1][2]

C10_TopFilesBoundedSorted ==
  /\ BoundedSortedDesc(top_files)
  /\ \A i \in 1..Len(updates) : BoundedSortedDesc(updates[i].top_files)

C10_Witness ==
  /\ tree = 1
  /\ max_results = 2
  /\ scanned_files = 5
  /\ top_files = << << << "f4" >>, 100 >>, << << "f2" >>, 50 >> >>
  /\ Len(updates) >= 1

(***************************************************************************)
(* The ranking on its own: a constructed scanner whose _update_top_files   *)
(* is called directly with arbitrary sizes in arbitrary order.             *)
(***************************************************************************)
RankInit == Init /\ tree = 1 /\ update_every_dirs = 1

\* one call self._update_top_files(path, size)
Offer ==
  /\ pc = "new"
  /\ Len(hist.offers) < MaxOffers
  /\ \E size \in 0..MaxSize :
       LET path == << "offer", ToString(Len(hist.offers) + 1) >>
       IN /\ top_files' = UpdateTopFiles(top_files, path, size)
          /\ heap' = HeapAfterOffer(path, size)
          /\ top_files_ref' = RefAfterOffer
          /\ hist' = [hist EXCEPT !.offers = Append(@, size)]
  /\ UNCHANGED << config, ui, stop_event, dir_queue, scanned_dirs,
                  scanned_files, dir_sizes, visited_realpaths, pc,
                  dirs_since_update, current_dir, it, updates, done_msgs >>

RankNext == Offer

RankSpec == RankInit /\ [][RankNext]_vars

\* the sizes of a ranking, in its order
Sizes(tf) == [i \in 1..Len(tf) |-> tf[i][2]]

Max(S) == CHOOSE m \in S : \A x \in S : x <= m

Range(s) == { s[i] : i \in 1..Len(s) }

\* a sequence without its i-th element
Without(s, i) == SubSeq(s, 1, i - 1) \o SubSeq(s, i + 1, Len(s))

\* the k largest numbers of a sequence (all of them when it has fewer), with
\* multiplicity, largest first
RECURSIVE Largest(_, _)
Largest(s, k) ==
  IF k = 0 \/ s = <<>> THEN <<>>
  ELSE LET m == Max(Range(s))
           i == CHOOSE j \in 1..Len(s) : s[j] = m
       IN << m >> \o Largest(Without(s, i), k - 1)

(***************************************************************************)
(* C11: after any sequence of offers, in any order, the sizes held in      *)
(* top_files are the min(max_results, number of offers) largest offered    *)
(* sizes, with multiplicity, in descending order.                          *)
(***************************************************************************)
C11_TopKLargest == Sizes(top_files) = Largest(hist.offers, max_results)

\* the largest size came second, the second largest last; two were dropped
C11_Witness ==
  /\ max_results = 2
  /\ hist.offers = << 1, 3, 0, 2 >>
  /\ Sizes(top_files) = << 3, 2 >>

(***************************************************************************)
(* C12: when a scan completes naturally and no filesystem call failed, the *)
(* aggregate table has one entry per visited directory, and the aggregate  *)
(* of each is exactly the sum of the sizes of the regular files that are   *)
(* its direct children: files of subdirectories add nothing to it.         *)
(***************************************************************************)
RECURSIVE SumOfFiles(_)
SumOfFiles(entries) ==
  IF entries = <<>> THEN 0
  ELSE (IF IsFile(Head(entries)) THEN Head(entries).size ELSE 0)
       + SumOfFiles(Tail(entries))

\* the sizes of the regular files directly in a directory, summed
DirectFileSum(d) == SumOfFiles(Scandir(d))

\* the loop ended on an empty queue, no enumeration was cut short, and no
\* filesystem call failed
NaturalNoFailure ==
  Finished /\ hist.exit = "exhausted" /\ ~hist.broke /\ ~hist.failed

C12_DirectChildrenOnly ==
  NaturalNoFailure =>
    /\ Len(dir_sizes) = Len(hist.visits)
    /\ \A i \in 1..Len(dir_sizes) :
         /\ dir_sizes[i][1] = hist.visits[i].path
         /\ dir_sizes[i][2] = DirectFileSum(dir_sizes[i][1])

\* the nested scenario: root = 0, A = 300, B = 10
C12_Witness ==
  /\ tree = 2
  /\ NaturalNoFailure
  /\ dir_sizes = << << <<>>, 0 >>, << << "A" >>, 300 >>, << << "B" >>, 10 >> >>

(***************************************************************************)
(* C13: the top_dirs of every emitted snapshot holds min(max_results,      *)
(* number of aggregate entries) distinct entries of the aggregate table as *)
(* it is at the emission, in non-increasing order of aggregate, and no     *)
(* entry left out has a larger aggregate than one that is in; two          *)
(* snapshots taken of the same table carry the same top_dirs.              *)
(***************************************************************************)
Min(a, b) == IF a <= b THEN a ELSE b

\* td is a ranking of the max_results largest entries of the table
IsTopOf(td, table) ==
  /\ Len(td) = Min(max_results, Len(table))
  /\ \A i \in 1..(Len(td) - 1) : td[i][2] >= td[i + 1][2]
  /\ \A i, j \in 1..Len(td) : i # j => td[i][1] # td[j][1]
  /\ Range(td) \subseteq Range(table)
  /\ \A x \in Range(table) \ Range(td) : \A y \in Range(td) : x[2] <= y[2]

\* a step that emits a snapshot emits the ranking of the table as it is
EmitsTopOfTable ==
  updates' # updates =>
    /\ Len(updates') = Len(updates) + 1
    /\ IsTopOf(updates'[Len(updates')].top_dirs, dir_sizes)

\* consecutive snapshots with equal counters were taken of the same table
SameTableSameTopDirs ==
  \A i \in 1..(Len(updates) - 1) :
    (/\ updates[i + 1].scanned_dirs = updates[i].scanned_dirs
     /\ updates[i + 1].scanned_files = updates[i].scanned_files)
      => updates[i + 1].top_dirs = updates[i].top_dirs

C13_TopDirsRanking == [][EmitsTopOfTable]_vars /\ []SameTableSameTopDirs

\* the nested scenario with max_results = 2: the root (0) is left out, and
\* the final snapshot repeats the ranking of the periodic one before it
C13_Witness ==
  /\ tree = 2
  /\ max_results = 2
  /\ Len(updates) >= 2
  /\ LastUpdate.scanned_dirs = 3
  /\ LastUpdate.top_dirs = << << << "A" >>, 300 >>, << << "B" >>, 10 >> >>
  /\ updates[Len(updates) - 1].scanned_dirs = 3
  /\ updates[Len(updates) - 1].top_dirs = LastUpdate.top_dirs

(***************************************************************************)
(* C14: a snapshot holds copies.  The lists an emitted snapshot holds are  *)
(* objects of their own, not the list self.top_files refers to, and no     *)
(* later step changes them or the counters of the snapshot: what the       *)
(* consumer reads in them is what they held when they were emitted.        *)
(***************************************************************************)
\* the model's top_files is the content of the list object self.top_files
\* refers to
HeapConsistent ==
  /\ top_files_ref \in 1..Len(heap)
  /\ heap[top_files_ref] = top_files

\* what the consumer finds in the lists of a snapshot now
HeldTopFiles(u) == heap[u.top_files_ref]
HeldTopDirs(u) == heap[u.top_dirs_ref]

SnapshotsHoldCopies ==
  \A i \in 1..Len(updates) :
    /\ updates[i].top_files_ref # top_files_ref
    /\ HeldTopFiles(updates[i]) = updates[i].top_files
    /\ HeldTopDirs(updates[i]) = updates[i].top_dirs

SnapshotsFrozen ==
  \A i \in 1..Len(updates) :
    /\ updates'[i] = updates[i]
    /\ heap'[updates[i].top_files_ref] = heap[updates[i].top_files_ref]
    /\ heap'[updates[i].top_dirs_ref] = heap[updates[i].top_dirs_ref]

C14_SnapshotIsCopy ==
  /\ [](HeapConsistent /\ SnapshotsHoldCopies)
  /\ [][SnapshotsFrozen]_vars

\* after the second snapshot was emitted, a file was appended in place to
\* the very list object it was copied from, and counted
C14_Witness ==
  /\ tree = 2
  /\ max_results = 2
  /\ Len(updates) >= 2
  /\ updates[2].top_files = << << << "A", "a" >>, 300 >> >>
  /\ updates[2].scanned_files = 1
  /\ top_files = << << << "A", "a" >>, 300 >>, << << "B", "b" >>, 10 >> >>
  /\ top_files_ref = 1
  /\ scanned_files = 2

(***************************************************************************)
(* C15 as stated: when os.scandir of the root fails and stop() is not      *)
(* called, the scan emits no periodic snapshot, ends with the              *)
(* natural-completion message, and its final snapshot has scanned_dirs =   *)
(* 0, scanned_files = 0, and empty top_dirs and top_files.                 *)
(***************************************************************************)
C15_Original ==
  (Finished /\ hist.root_failed /\ ~stop_event)
    => /\ Periodic = <<>>
       /\ done_msgs = << FINISHED >>
       /\ LastUpdate.scanned_dirs = 0
       /\ LastUpdate.scanned_files = 0
       /\ LastUpdate.top_dirs = <<>>
       /\ LastUpdate.top_files = <<>>

(***************************************************************************)
(* C15 amended: when os.scandir of the root fails, the root is the one     *)
(* directory visited and nothing is left to do: the queue is empty, no     *)
(* file is counted, and the table holds the root with aggregate 0.  When   *)
(* stop() is not called the scan ends with the natural-completion message  *)
(* and a final snapshot with scanned_dirs = 1, scanned_files = 0, top_dirs *)
(* = [(root, 0)] and empty top_files; one periodic snapshot with the same  *)
(* counters and lists precedes it exactly when update_every_dirs = 1.      *)
(***************************************************************************)
RootOnly ==
  /\ dir_queue = <<>>
  /\ scanned_dirs = 1
  /\ scanned_files = 0
  /\ dir_sizes = << << <<>>, 0 >> >>
  /\ top_files = <<>>

\* a snapshot of a scan that visited the root and found nothing
IsRootOnlySnapshot(u) ==
  /\ u.scanned_dirs = 1
  /\ u.scanned_files = 0
  /\ u.top_dirs = << << <<>>, 0 >> >>
  /\ u.top_files = <<>>

C15_RootInaccessible ==
  /\ hist.root_failed => RootOnly
  /\ (Finished /\ hist.root_failed /\ ~stop_event)
       => /\ done_msgs = << FINISHED >>
          /\ hist.exit = "exhausted"
          /\ LastUpdate.current_dir = DONE
          /\ \A i \in 1..Len(updates) : IsRootOnlySnapshot(updates[i])
          /\ Len(Periodic) = (IF update_every_dirs = 1 THEN 1 ELSE 0)

\* with update_every_dirs = 1 the inaccessible root is reported twice
C15_Witness ==
  /\ Finished
  /\ hist.root_failed
  /\ ~stop_event
  /\ update_every_dirs = 1
  /\ Len(updates) = 2
  /\ updates[1].current_dir = <<>>
  /\ done_msgs = << FINISHED >>

(***************************************************************************)
(* C16: the step in which the enumeration of a directory fails, at         *)
(* os.scandir or at any entry of the iteration, ends that directory and    *)
(* changes nothing else: the queue, the visited set, the aggregate table,  *)
(* the counters, the ranking and what the consumer has received stay as    *)
(* they are.  The engine thread stays alive, goes on to dequeue the next   *)
(* queued directory unless stop() intervenes, and the consumer receives    *)
(* nothing but snapshots and one of the two completion messages.           *)
(***************************************************************************)
EnumFailureEvents == {"open_failed", "iter_failed"}

\* the enumeration of current_dir has just failed
EnumFailedHere == pc = "after" /\ hist.event \in EnumFailureEvents

EnumFailureFrame ==
  (pc \in {"scandir", "iter"} /\ pc' # pc /\ hist'.event \in EnumFailureEvents)
    => /\ pc' = "after"
       /\ current_dir' = current_dir
       /\ UNCHANGED << dir_queue, visited_realpaths, dir_sizes, scanned_dirs,
                       scanned_files, top_files, heap, updates, done_msgs >>

NoErrorSurfaces ==
  /\ pc \in PcValues
  /\ \A i \in 1..Len(done_msgs) : done_msgs[i] \in {FINISHED, STOPPED}

C16_EnumFailureLocal ==
  /\ [][EnumFailureFrame]_vars
  /\ []NoErrorSurfaces
  /\ (EnumFailedHere /\ dir_queue # <<>>) ~> (pc = "get" \/ stop_event)
  /\ EnumFailedHere ~> Finished

\* the nested scenario: the iteration of the root fails after A was
\* enqueued and before B was seen; A is still pending
C16_Witness ==
  /\ tree = 2
  /\ EnumFailedHere
  /\ hist.event = "iter_failed"
  /\ current_dir = <<>>
  /\ dir_queue = << << "A" >> >>
  /\ scanned_dirs = 1

(***************************************************************************)
(* C17: the step in which is_dir, is_file or stat of an entry raises skips *)
(* exactly that entry: it changes neither scanned_files, the aggregate     *)
(* table, the ranking nor the queue, and leaves the iterator at the next   *)
(* entry of the same directory.  Nothing is ever counted in part: the      *)
(* number of counted files is the number of offers to the ranking, and the *)
(* aggregates add up to the sizes offered.                                 *)
(***************************************************************************)
RECURSIVE SumSeq(_)
SumSeq(s) == IF s = <<>> THEN 0 ELSE Head(s) + SumSeq(Tail(s))

EntryFailureFrame ==
  (pc = "entry" /\ pc' # pc /\ hist'.event = "entry_failed")
    => /\ pc' = "iter"
       /\ it' = it + 1
       /\ current_dir' = current_dir
       /\ UNCHANGED << scanned_files, dir_sizes, top_files, dir_queue, heap,
                       scanned_dirs, visited_realpaths, updates, done_msgs >>

NothingCountedInPart ==
  /\ scanned_files = Len(hist.offers)
  /\ SumSeq(Sizes(dir_sizes)) = SumSeq(hist.offers)

C17_EntryFailureSkipsEntry ==
  [][EntryFailureFrame]_vars /\ []NothingCountedInPart

\* the flat scenario: f1 was skipped, the four entries after it were counted
C17_Witness ==
  /\ tree = 1
  /\ Finished
  /\ ~stop_event
  /\ hist.offers = << 50, 5, 100, 20 >>
  /\ scanned_files = 4
  /\ dir_sizes = << << <<>>, 175 >> >>

(***************************************************************************)
(* The application, StorageScannerApp (src/ui_app.py).  Its handlers run   *)
(* on the main thread, one at a time; the scanner's callbacks reach it as  *)
(* after(0, ...) events, which Tk runs in the order they were posted:      *)
(* the snapshots in `updates` first to last, then the message of           *)
(* done_msgs.  ui.applied counts the snapshots _apply_update has run for.  *)
(* A confirmation dialog runs an event loop of its own: while it is open   *)
(* the posted callbacks still run, the handlers of user input do not.      *)
(***************************************************************************)
\* the keys the user types into the max-results field; "x" stands for any
\* key that is not a digit
TypedChars == {"0", "7", "x"}

\* the trees the user picks as scan root: the small folder
UIRoots == {5}

Digits == << "0", "1", "2", "3", "4", "5", "6", "7", "8", "9" >>

IsDigit(c) == c \in Range(Digits)

DigitValue(c) == (CHOOSE i \in DOMAIN Digits : Digits[i] = c) - 1

\* every text of at most MaxFieldLen typed characters
FieldTexts == UNION { [1..n -> TypedChars] : n \in 0..MaxFieldLen }

\* the validatecommand of the entry: `s.isdigit() or s == ""`
KeyValidation(text) ==
  text = <<>> \/ \A i \in 1..Len(text) : IsDigit(text[i])

\* int(text) raises ValueError
IntRaises(text) ==
  text = <<>> \/ \E i \in 1..Len(text) : ~IsDigit(text[i])

\* int(text) for a text of decimal digits
RECURSIVE IntOf(_)
IntOf(text) ==
  IF text = <<>> THEN 0
  ELSE 10 * IntOf(SubSeq(text, 1, Len(text) - 1)) + DigitValue(text[Len(text)])

\* the max_results of start_scan without the test against 5
StartScanMaxResultsUnclamped(text) ==
  IF IntRaises(text) THEN DefaultResults ELSE IntOf(text)

\* lines 374-379 of start_scan: the max_results handed to DirectoryScanner
StartScanMaxResults(text) ==
  IF IntRaises(text) THEN DefaultResults
  ELSE IF IntOf(text) < MinResults THEN MinResults ELSE IntOf(text)

\* the paths of a list of (path, size) pairs, in its order
Paths(list) == [i \in 1..Len(list) |-> list[i][1]]

\* `idx = list.index(p); del list[idx]`, nothing when p is not in the list
RemoveFirst(list, p) ==
  IF p \in Range(list)
    THEN LET first == CHOOSE i \in 1..Len(list) :
                        /\ list[i] = p
                        /\ \A j \in 1..(i - 1) : list[j] # p
         IN Without(list, first)
    ELSE list

\* StorageScannerApp.__init__ and _build_ui; drag_index 0 is None, rows are
\* counted from 1; dialog holds the path the open confirmation is about;
\* pressed, for observation only, holds the path that was displayed in the
\* row of drag_index when the button went down
UIInitial ==
  [scanner |-> FALSE, text |-> << "2", "5" >>, dir_paths |-> <<>>,
   file_paths |-> <<>>, drag_index |-> 0, dragging |-> FALSE,
   bindings |-> FALSE, dialog |-> <<>>, applied |-> 0, scans |-> 0,
   pressed |-> <<>>]

\* the application before its first scan: no DirectoryScanner exists
UIInit ==
  /\ tree = 1
  /\ max_results = DefaultResults
  /\ update_every_dirs = UpdateEveryDirs
  /\ stop_event = FALSE
  /\ dir_queue = <<>>
  /\ scanned_dirs = 0
  /\ scanned_files = 0
  /\ dir_sizes = <<>>
  /\ top_files = <<>>
  /\ visited_realpaths = {}
  /\ pc = "none"
  /\ dirs_since_update = 0
  /\ current_dir = <<>>
  /\ it = 0
  /\ updates = <<>>
  /\ done_msgs = <<>>
  /\ heap = << <<>> >>
  /\ top_files_ref = 1
  /\ ui = UIInitial
  /\ hist = InitialHist

\* everything but the fields of the application
scan == << config, stop_event, engine, pc, dirs_since_update, current_dir, it,
          updates, done_msgs, hist >>

\* the DirectoryScanner and its thread
scanner == << config, stop_event, engine, pc, dirs_since_update, current_dir,
             it, updates, done_msgs >>

NoDialog == ui.dialog = <<>>

\* the user replaces the content of the max-results field; the entry
\* refuses a content its key validation rejects
EditField ==
  /\ NoDialog
  /\ ~ui.scanner
  /\ \E text \in FieldTexts :
       /\ KeyValidation(text)
       /\ ui' = [ui EXCEPT !.text = text]
  /\ UNCHANGED scan

\* lines 374-405 of start_scan: the lists are cleared, a DirectoryScanner
\* is built on the root picked and its thread started
BuildScanner(roots) ==
  /\ tree' \in roots
  /\ max_results' = StartScanMaxResults(ui.text)
  /\ update_every_dirs' = UpdateEveryDirs
  /\ stop_event' = FALSE
  /\ dir_queue' = << <<>> >>
  /\ scanned_dirs' = 0
  /\ scanned_files' = 0
  /\ dir_sizes' = <<>>
  /\ top_files' = <<>>
  /\ visited_realpaths' = {}
  /\ pc' = "new"
  /\ dirs_since_update' = 0
  /\ current_dir' = <<>>
  /\ it' = 0
  /\ updates' = <<>>
  /\ done_msgs' = <<>>
  /\ heap' = << <<>> >>
  /\ top_files_ref' = 1
  /\ hist' = InitialHist
  /\ ui' = [ui EXCEPT !.scanner = TRUE, !.dir_paths = <<>>,
                      !.file_paths = <<>>, !.applied = 0, !.scans = @ + 1]

\* start_scan without the test of self.scanner
StartScanWhileScanning(roots, most) ==
  /\ NoDialog
  /\ ui.scans < most
  /\ BuildScanner(roots)

\* start_scan with a root picked: "Already scanning." and nothing else when
\* a scanner exists
StartScanOf(roots, most) ==
  /\ NoDialog
  /\ ~ui.scanner
  /\ ui.scans < most
  /\ BuildScanner(roots)

StartScan == StartScanOf(UIRoots, MaxScans)

\* the first start_scan of a session, on the deep folder
StartLongScan == ui.scans = 0 /\ StartScanOf(LongRoots, MaxScans)

\* stop_scan
StopScan == NoDialog /\ ui.scanner /\ Stop

\* _apply_update run for the newest snapshot posted instead of the oldest
ApplyUpdateNewestFirst ==
  /\ ui.applied < Len(updates)
  /\ LET update == updates[Len(updates)]
     IN ui' = [ui EXCEPT !.applied = @ + 1,
                         !.dir_paths = Paths(HeldTopDirs(update)),
                         !.file_paths = Paths(HeldTopFiles(update))]
  /\ UNCHANGED scan

\* _apply_update, run for the oldest snapshot not yet applied
ApplyUpdate ==
  /\ ui.applied < Len(updates)
  /\ LET update == updates[ui.applied + 1]
     IN ui' = [ui EXCEPT !.applied = @ + 1,
                         !.dir_paths = Paths(HeldTopDirs(update)),
                         !.file_paths = Paths(HeldTopFiles(update))]
  /\ UNCHANGED scan

\* _scan_done run as soon as on_done was called, ahead of the snapshots
\* that wait to be applied
ScanDoneAheadOfSnapshots ==
  /\ ui.scanner
  /\ done_msgs # <<>>
  /\ ui' = [ui EXCEPT !.scanner = FALSE]
  /\ UNCHANGED scan

\* _scan_done, run after every snapshot was applied
ScanDone ==
  /\ ui.scanner
  /\ done_msgs # <<>>
  /\ ui.applied = Len(updates)
  /\ ui' = [ui EXCEPT !.scanner = FALSE]
  /\ UNCHANGED scan

\* _file_mouse_down: the nearest row, none when the list is empty
FileMouseDown ==
  /\ NoDialog
  /\ IF ui.file_paths = <<>>
       THEN ui' = [ui EXCEPT !.drag_index = 0, !.dragging = FALSE,
                             !.pressed = <<>>]
       ELSE \E row \in 1..Len(ui.file_paths) :
              ui' = [ui EXCEPT !.drag_index = row, !.dragging = FALSE,
                               !.pressed = << ui.file_paths[row] >>]
  /\ UNCHANGED scan

\* _file_mouse_drag_local with the pointer moved past the threshold
FileMouseDragLocal ==
  /\ NoDialog
  /\ ui.drag_index # 0
  /\ ~ui.dragging
  /\ ui' = [ui EXCEPT !.dragging = TRUE, !.bindings = TRUE]
  /\ UNCHANGED scan

\* `self._file_paths[idx]` with the remembered index, as both release
\* handlers read it: the file the release acts on, none when the index is
\* past the end of the list
ReleasedFile(u) ==
  IF u.drag_index # 0 /\ u.drag_index <= Len(u.file_paths)
    THEN << u.file_paths[u.drag_index] >>
    ELSE <<>>

\* _file_mouse_up_local: a click opens ReleasedFile; opening changes no
\* field
FileMouseUpLocal(u) ==
  IF u.drag_index # 0 /\ ~u.dragging
    THEN [u EXCEPT !.drag_index = 0, !.pressed = <<>>]
    ELSE u

\* _file_mouse_up_global up to the confirmation dialog; os.path.isfile is
\* False for a file that went to the recycle bin
FileMouseUpGlobal(u, over_bin, isfile) ==
  IF u.drag_index = 0 THEN u
  ELSE LET reset == [u EXCEPT !.drag_index = 0, !.dragging = FALSE,
                              !.pressed = <<>>]
       IN IF \/ ~u.dragging
             \/ ReleasedFile(u) = <<>>
             \/ ~over_bin
             \/ ~isfile
             \/ ReleasedFile(u)[1] \in hist.trashed
            THEN reset
            ELSE [reset EXCEPT !.dialog = ReleasedFile(u)]

\* the button is released: the binding of the file list runs, then the
\* application-wide one when it has been bound
ButtonRelease ==
  /\ NoDialog
  /\ \E over_bin, isfile \in BOOLEAN :
       LET local == FileMouseUpLocal(ui)
       IN ui' = IF ui.bindings
                  THEN FileMouseUpGlobal(local, over_bin, isfile)
                  ELSE local
  /\ UNCHANGED scan

\* a list of (path, size) pairs without the pairs of path p
RemovePath(list, p) ==
  LET Keep(x) == x[1] # p
  IN SelectSeq(list, Keep)

\* ConfirmDrop also taking the trashed file out of the scanner's ranking
ConfirmDropEditsRanking ==
  /\ ~NoDialog
  /\ \E confirm, trashed \in BOOLEAN :
       IF confirm /\ trashed
         THEN /\ ui' = [ui EXCEPT !.dialog = <<>>,
                                  !.file_paths = RemoveFirst(@, ui.dialog[1])]
              /\ top_files' = RemovePath(top_files, ui.dialog[1])
              /\ heap' = [heap EXCEPT ![top_files_ref] =
                                        RemovePath(@, ui.dialog[1])]
         ELSE /\ ui' = [ui EXCEPT !.dialog = <<>>]
              /\ UNCHANGED << top_files, heap >>
  /\ UNCHANGED << config, stop_event, dir_queue, scanned_dirs, scanned_files,
                  dir_sizes, visited_realpaths, top_files_ref, pc,
                  dirs_since_update, current_dir, it, updates, done_msgs,
                  hist >>

\* `del list[0]`: the top row goes, whatever the path
RemoveTopRow(list, p) == IF list = <<>> THEN list ELSE Tail(list)

\* the row of path p removed from the displayed file list
RemoveRow(list, p) == RemoveFirst(list, p)

\* _file_mouse_up_global from the answer to the dialog on: send2trash, then
\* the row of the path is removed; hist.trashed holds the files that went
\* to the recycle bin since the scan was started
ConfirmDrop ==
  /\ ~NoDialog
  /\ \E confirm, trashed \in BOOLEAN :
       IF confirm /\ trashed
         THEN /\ ui' = [ui EXCEPT !.dialog = <<>>,
                                  !.file_paths = RemoveRow(@, ui.dialog[1])]
              /\ hist' = [hist EXCEPT !.trashed = @ \cup {ui.dialog[1]}]
         ELSE /\ ui' = [ui EXCEPT !.dialog = <<>>]
              /\ UNCHANGED hist
  /\ UNCHANGED scanner

UINext ==
  \/ EditField
  \/ StartScan
  \/ StopScan
  \/ Engine
  \/ ApplyUpdate
  \/ ScanDone
  \/ FileMouseDown
  \/ FileMouseDragLocal
  \/ ButtonRelease
  \/ ConfirmDrop

UISpec == UIInit /\ [][UINext]_vars

\* a session on the deep folder, the max-results field left at its default
LongNext ==
  \/ StartLongScan
  \/ StopScan
  \/ Engine
  \/ ApplyUpdate
  \/ ScanDone
  \/ FileMouseDown
  \/ FileMouseDragLocal
  \/ ButtonRelease
  \/ ConfirmDrop

LongSpec == UIInit /\ [][LongNext]_vars

\* the step is a start_scan that builds a new DirectoryScanner
NewScanner == ui'.scans # ui.scans

(***************************************************************************)
(* C18: the stop event of a scanner is never cleared: in every step of the *)
(* engine or of the application that does not build a new scanner, a set   *)
(* stop event stays set.                                                   *)
(***************************************************************************)
C18_StopWriteOnce == [][(stop_event /\ ~NewScanner) => stop_event']_vars

\* stop_scan came before the thread had seen its last entry; the engine
\* ran on to on_done, the final snapshot was applied, _scan_done has run
C18_Witness ==
  /\ stop_event
  /\ hist.entries_after_stop = 1
  /\ Finished
  /\ ui.applied = 1
  /\ ~ui.scanner

(***************************************************************************)
(* C19: the state of a scan is changed by the steps of the engine thread   *)
(* only.  A step of the application that does not build a new scanner      *)
(* (stop_scan, _apply_update, _scan_done, the mouse handlers and the drop  *)
(* on the recycle bin) leaves the queue, the visited set, the aggregate    *)
(* table, the ranking and its list objects, the counters and the locals of *)
(* _run as they are; the one thing it may change is the stop event, which  *)
(* no step of the engine changes.                                          *)
(***************************************************************************)
\* the engine moves pc in every step; no handler of the application does
ApplicationStep == pc' = pc /\ ~NewScanner

ApplicationFrame ==
  ApplicationStep =>
    UNCHANGED << config, engine, dirs_since_update, current_dir, it, updates,
                 done_msgs >>

StopEventOwner == (stop_event' # stop_event /\ ~NewScanner) => pc' = pc

C19_OnlyEngineMutates == [][ApplicationFrame /\ StopEventOwner]_vars

\* stop_scan, _apply_update, a confirmed drop and _scan_done have all run
\* on a scan that counted both files
C19_Witness ==
  /\ ui.scans = 1
  /\ ~ui.scanner
  /\ ui.applied = 1
  /\ stop_event
  /\ scanned_files = 2
  /\ Len(top_files) = 2
  /\ Len(ui.file_paths) = 1
  /\ NoDialog

(***************************************************************************)
(* C20: every DirectoryScanner start_scan builds gets max_results >= 5,    *)
(* whatever the max-results field holds: 25 for a content int() rejects    *)
(* (the empty field), 5 for a number below 5 (zero), the number itself     *)
(* otherwise.                                                              *)
(***************************************************************************)
BuiltWithAtLeastMin ==
  NewScanner =>
    /\ max_results' >= MinResults
    /\ IntRaises(ui.text) => max_results' = DefaultResults
    /\ (~IntRaises(ui.text) /\ IntOf(ui.text) < MinResults)
         => max_results' = MinResults
    /\ (~IntRaises(ui.text) /\ IntOf(ui.text) >= MinResults)
         => max_results' = IntOf(ui.text)

C20_MaxResultsAtLeastMin ==
  /\ [](pc # "none" => max_results >= MinResults)
  /\ [][BuiltWithAtLeastMin]_vars

\* the field held "0" when the second scanner was built
C20_Witness ==
  /\ ui.scans = 2
  /\ ui.scanner
  /\ ui.text = << "0" >>
  /\ max_results = MinResults
  /\ pc = "new"

(***************************************************************************)
(* C21: the application never has two scans active at once.  start_scan    *)
(* builds and starts a DirectoryScanner only when no scanner is held; when *)
(* it is not the first, the thread of the previous one has called on_done  *)
(* and has no statement left, every snapshot it posted was applied and     *)
(* _scan_done has run.  A thread that still has a statement to execute     *)
(* belongs to the scanner the application holds.                           *)
(***************************************************************************)
\* _scan_done has handled the on_done of the scan
DoneHandled ==
  /\ Finished
  /\ done_msgs # <<>>
  /\ ui.applied = Len(updates)
  /\ ~ui.scanner

StartsAfterDone ==
  NewScanner =>
    /\ ~ui.scanner
    /\ ~EngineEnabled
    /\ ui.scans > 0 => DoneHandled
    /\ ui'.scans = ui.scans + 1

C21_OneScanAtATime ==
  /\ [](EngineEnabled => ui.scanner)
  /\ [](ui.scans = 0 => pc = "none")
  /\ [][StartsAfterDone]_vars

\* the second scanner was started after the completion of the first was
\* handled; its thread is enumerating the root
C21_Witness ==
  /\ ui.scans = 2
  /\ ui.scanner
  /\ pc = "iter"
  /\ current_dir = <<>>
  /\ ~stop_event

(***************************************************************************)
(* C22: the engine thread never changes a field of the application: its    *)
(* on_update and on_done only post callbacks.  The application applies the *)
(* snapshots in the order the engine produced them, the k-th run of        *)
(* _apply_update showing the k-th snapshot, and _scan_done runs after the  *)
(* final snapshot was applied.                                             *)
(***************************************************************************)
EngineLeavesUI == (pc' # pc /\ ~NewScanner) => ui' = ui

AppliedInOrder ==
  ui'.applied # ui.applied /\ ~NewScanner =>
    /\ ui'.applied = ui.applied + 1
    /\ ui'.applied <= Len(updates)
    /\ ui'.dir_paths = Paths(HeldTopDirs(updates[ui'.applied]))
    /\ ui'.file_paths = Paths(HeldTopFiles(updates[ui'.applied]))

DoneAfterFinalSnapshot ==
  ui.scanner /\ ~ui'.scanner =>
    /\ done_msgs # <<>>
    /\ ui.applied = Len(updates)
    /\ LastUpdate.current_dir = DONE

C22_CallbacksInOrder ==
  [][EngineLeavesUI /\ AppliedInOrder /\ DoneAfterFinalSnapshot]_vars

\* the deep folder was scanned to its end: the snapshot sent after 25
\* folders and the final one were applied, then _scan_done ran
C22_Witness ==
  /\ tree \in LongRoots
  /\ Len(updates) = 2
  /\ ui.applied = 2
  /\ ~ui.scanner
  /\ ~stop_event
  /\ ui.file_paths = << Append(Chain(ChainDepth), "g"), << "f" >> >>

(***************************************************************************)
(* C23: when the drop of file p on the recycle bin is confirmed and        *)
(* send2trash succeeds, the row of p and no other leaves the displayed     *)
(* file list: p is no longer in _file_paths and the other rows keep their  *)
(* order.  When the user declines or send2trash fails the list is as it    *)
(* was.  In both cases the ranking of the scanner, its list objects, the   *)
(* aggregate table and the counters are untouched.                         *)
(***************************************************************************)
\* the confirmation dialog closes in this step
DialogCloses == ~NoDialog /\ ui'.dialog = <<>>

\* send2trash succeeded in this step
Trashes == hist'.trashed # hist.trashed

\* list s without the rows equal to p
Others(s, p) ==
  LET Keep(x) == x # p
  IN SelectSeq(s, Keep)

DropFrame ==
  DialogCloses =>
    LET p == ui.dialog[1]
    IN /\ UNCHANGED << top_files, heap, top_files_ref, dir_sizes,
                       scanned_files, scanned_dirs >>
       /\ ui'.dir_paths = ui.dir_paths
       /\ IF Trashes
            THEN /\ hist'.trashed = hist.trashed \cup {p}
                 /\ p \notin Range(ui'.file_paths)
                 /\ ui'.file_paths = Others(ui.file_paths, p)
                 /\ Len(ui'.file_paths) >= Len(ui.file_paths) - 1
            ELSE ui'.file_paths = ui.file_paths

C23_DropRemovesOneRow == [][DropFrame]_vars

\* file f, shown in the second row, went to the recycle bin: the row of
\* A/g is left and the ranking of the scanner still holds both files
C23_Witness ==
  /\ tree = 5
  /\ hist.trashed = { << "f" >> }
  /\ ui.file_paths = << << "A", "g" >> >>
  /\ Paths(top_files) = << << "A", "g" >>, << "f" >> >>
  /\ NoDialog

(***************************************************************************)
(* C24: in every state the aggregate table has one entry for each          *)
(* directory visited so far and no other, keyed by the traversal path, in  *)
(* the order of the visits: the number of entries is scanned_dirs and the  *)
(* size of the visited set.  The entry is made with value 0 in the step    *)
(* that visits the directory, whether or not the directory has files or    *)
(* can be enumerated; no entry is ever removed or renamed and no value     *)
(* ever decreases.                                                         *)
(***************************************************************************)
TableMatchesVisits ==
  /\ Len(dir_sizes) = scanned_dirs
  /\ Len(dir_sizes) = Cardinality(visited_realpaths)
  /\ Len(dir_sizes) = Len(hist.visits)
  /\ \A i \in 1..Len(dir_sizes) :
       /\ dir_sizes[i][1] = hist.visits[i].path
       /\ dir_sizes[i][2] >= 0

TableGrows ==
  /\ Len(dir_sizes') \in {Len(dir_sizes), Len(dir_sizes) + 1}
  /\ \A i \in 1..Len(dir_sizes) :
       /\ dir_sizes'[i][1] = dir_sizes[i][1]
       /\ dir_sizes'[i][2] >= dir_sizes[i][2]
  /\ Len(dir_sizes') > Len(dir_sizes) =>
       /\ pc = "get"
       /\ dir_sizes'[Len(dir_sizes')] = << current_dir', 0 >>

C24_AggregateEntries == []TableMatchesVisits /\ [][TableGrows]_vars

\* the scan of the two-level tree ended with the attempt to open B/D, which
\* failed: the empty A/C and the unreadable B/D have their entries of 0
C24_Witness ==
  /\ tree = 4
  /\ Finished
  /\ hist.event = "open_failed"
  /\ scanned_dirs = 5
  /\ dir_sizes = << << <<>>, 0 >>, << << "A" >>, 0 >>, << << "B" >>, 0 >>,
                    << << "A", "C" >>, 0 >>, << << "B", "D" >>, 0 >> >>

\* the canonical directories among the visits so far
VisitedCanonical == { Realpath(hist.visits[i].path) : i \in 1..Len(hist.visits) }

\* the keys under which the visits so far were marked
VisitedKeys == { hist.visits[i].real : i \in 1..Len(hist.visits) }

(***************************************************************************)
(* C25 as stated: the counters never decrease, scanned_dirs is incremented *)
(* exactly once for each canonical directory visited, so it is the number  *)
(* of canonical directories visited, and scanned_files exactly once for    *)
(* each file entry whose classification and stat succeeded.                *)
(***************************************************************************)
C25_Original ==
  /\ scanned_dirs = Cardinality(VisitedCanonical)
  /\ scanned_files = Len(hist.offers)

(***************************************************************************)
(* C25 amended: the counters never decrease.  scanned_dirs is incremented  *)
(* by one in exactly the steps that visit a directory, never in a step     *)
(* that discards a duplicate: it is the number of visits and of distinct   *)
(* visited keys, which is the number of canonical directories visited as   *)
(* long as no canonical-path resolution has failed; after a failure the    *)
(* path itself is the key, and a canonical directory reached again through *)
(* a link can be visited and counted a second time.  scanned_files is      *)
(* incremented by one in exactly the steps that count a regular file whose *)
(* classification and stat succeeded, never for a failed, skipped or       *)
(* directory entry.                                                        *)
(***************************************************************************)
CountersMatchHistory ==
  /\ scanned_dirs = Len(hist.visits)
  /\ scanned_dirs = Cardinality(VisitedKeys)
  /\ hist.realpath_failures = 0 => scanned_dirs = Cardinality(VisitedCanonical)
  /\ scanned_files = Len(hist.offers)

CountersStep ==
  /\ scanned_dirs' \in {scanned_dirs, scanned_dirs + 1}
  /\ scanned_files' \in {scanned_files, scanned_files + 1}
  /\ scanned_dirs' # scanned_dirs <=> (pc = "get" /\ pc' = "scandir")
  /\ hist'.discards # hist.discards => scanned_dirs' = scanned_dirs
  /\ scanned_files' # scanned_files <=>
       /\ pc = "entry"
       /\ hist'.event = "counted"
       /\ Scandir(current_dir)[it].kind = "file"

C25_CountersCountOnce == []CountersMatchHistory /\ [][CountersStep]_vars

\* the resolution of A/up failed: the root was visited a second time under
\* the key A/up, and A, found again as A/C/toA, was discarded
C25_Witness ==
  /\ tree = 3
  /\ Finished
  /\ hist.realpath_failures = 1
  /\ scanned_dirs = 4
  /\ Cardinality(VisitedCanonical) = 3
  /\ hist.discards > 0
  /\ scanned_files = 1

(***************************************************************************)
(* C26: an entry is handled in one way only, and links are followed for    *)
(* the directory test alone.  An entry that is a directory or a link to    *)
(* one is put on the queue, unless its classification fails, and is never  *)
(* counted as a file; a symbolic link to a file is neither enqueued nor    *)
(* counted, it leaves the queue, scanned_files, the aggregate table and    *)
(* top_files as they are; what is counted is a regular file that is not a  *)
(* link, and it is not enqueued.                                           *)
(***************************************************************************)
EntryHandledOnce ==
  (pc = "entry" /\ pc' = "iter") =>
    LET e == Scandir(current_dir)[it]
        path == Append(current_dir, e.name)
        counts == << scanned_files, dir_sizes, top_files, heap >>
    IN /\ hist'.event \in {"entry_failed", "enqueued", "counted", "ignored"}
       /\ e.kind \in {"dir", "dirlink"} =>
            /\ hist'.event \in {"enqueued", "entry_failed"}
            /\ UNCHANGED counts
       /\ hist'.event = "enqueued" =>
            /\ e.kind \in {"dir", "dirlink"}
            /\ dir_queue' = Append(dir_queue, path)
       /\ e.kind = "filelink" =>
            /\ hist'.event \in {"ignored", "entry_failed"}
            /\ UNCHANGED << dir_queue, counts >>
       /\ hist'.event = "counted" =>
            /\ e.kind = "file"
            /\ scanned_files' = scanned_files + 1
            /\ UNCHANGED dir_queue
       /\ hist'.event # "enqueued" => UNCHANGED dir_queue
       /\ hist'.event # "counted" => UNCHANGED counts

C26_LinkAsymmetry == [][EntryHandledOnce]_vars

\* the link s of B, a symbolic link to a file, has just been passed over:
\* the two regular files are counted, nothing is queued
C26_Witness ==
  /\ tree = 2
  /\ pc = "iter"
  /\ current_dir = << "B" >>
  /\ it = 3
  /\ hist.event = "ignored"
  /\ scanned_files = 2
  /\ dir_queue = <<>>
  /\ Paths(top_files) = << << "A", "a" >>, << "B", "b" >> >>

(***************************************************************************)
(* C27: nothing is deduplicated when a directory is put on the queue.      *)
(* Every directory entry that is classified is enqueued, also when its     *)
(* directory was visited before or is queued already.  After a scan that   *)
(* ran to natural completion without a failing filesystem call, a          *)
(* canonical directory that was discovered m times (the seeding of the     *)
(* root counts as a discovery) was visited once and discarded at the       *)
(* visited check m - 1 times.                                              *)
(***************************************************************************)
\* the discoveries of canonical directory c: the directory entries of
\* reachable directories that lead to it, and the seeding for the root
Discoveries(c) ==
  Cardinality({ x \in UNION { { << n, i >> : i \in 1..Len(FS[n]) } :
                              n \in CanonicalDirs } :
                  /\ IsDir(FS[x[1]][x[2]])
                  /\ Child(x[1], FS[x[1]][x[2]]) = c })
  + (IF c = <<>> THEN 1 ELSE 0)

DiscardsOf(c) ==
  Cardinality({ i \in 1..Len(hist.discarded) :
                  Realpath(hist.discarded[i]) = c })

VisitsOf(c) ==
  Cardinality({ i \in 1..Len(hist.visits) : hist.visits[i].real = c })

EnqueuedRegardless ==
  (pc = "entry" /\ pc' = "iter" /\ IsDir(Scandir(current_dir)[it])
     /\ hist'.event # "entry_failed")
    => dir_queue' =
         Append(dir_queue, Append(current_dir, Scandir(current_dir)[it].name))

DiscardedAtDequeue ==
  NaturalNoFailure =>
    \A c \in CanonicalDirs :
      /\ VisitsOf(c) = 1
      /\ DiscardsOf(c) = Discoveries(c) - 1

C27_NoEnqueueDedup ==
  /\ [](DiscardedAtDequeue /\ Len(hist.discarded) = hist.discards)
  /\ [][EnqueuedRegardless]_vars

\* the root, seeded and found again as A/up, and A, found as A and as
\* A/C/toA, were each enqueued twice, visited once and discarded once
C27_Witness ==
  /\ tree = 3
  /\ NaturalNoFailure
  /\ Discoveries(<<>>) = 2
  /\ Discoveries(<< "A" >>) = 2
  /\ Discoveries(<< "A", "C" >>) = 1
  /\ hist.discarded = << << "A", "up" >>, << "A", "C", "toA" >> >>
  /\ scanned_dirs = 3

(***************************************************************************)
(* C28: the traversal is breadth-first.  The queue is first-in first-out:  *)
(* a step that changes it either takes its oldest path, which becomes      *)
(* current_dir, or appends one path at its end.  So in a tree without      *)
(* directory links the directories are visited in order of depth: when a   *)
(* directory at depth d+1 is visited, no discovered directory at depth d   *)
(* or above is waiting in the queue, and the queue never holds a path      *)
(* deeper than the children of the directory being visited.                *)
(***************************************************************************)
NoDirLinks ==
  \A n \in DOMAIN FS : \A i \in 1..Len(FS[n]) : FS[n][i].kind # "dirlink"

Depth(path) == Len(path)

QueueIsFifo ==
  dir_queue' # dir_queue =>
    \/ /\ pc = "get"
       /\ dir_queue # <<>>
       /\ current_dir' = Head(dir_queue)
       /\ dir_queue' = Tail(dir_queue)
    \/ /\ pc = "entry"
       /\ Len(dir_queue') = Len(dir_queue) + 1
       /\ SubSeq(dir_queue', 1, Len(dir_queue)) = dir_queue

VisitedByDepth ==
  (NoDirLinks /\ hist.visits # <<>>) =>
    LET n == Len(hist.visits)
        d == Depth(hist.visits[n].path)
    IN /\ \A i \in 1..(n - 1) :
            Depth(hist.visits[i].path) <= Depth(hist.visits[i + 1].path)
       /\ \A i \in 1..Len(dir_queue) :
            /\ Depth(dir_queue[i]) >= d
            /\ Depth(dir_queue[i]) <= d + 1
       /\ \A i \in 1..(Len(dir_queue) - 1) :
            Depth(dir_queue[i]) <= Depth(dir_queue[i + 1])

C28_BreadthFirst == []VisitedByDepth /\ [][QueueIsFifo]_vars

\* the two-level tree was visited level by level
C28_Witness ==
  /\ tree = 4
  /\ Finished
  /\ [i \in 1..Len(hist.visits) |-> hist.visits[i].path]
       = << <<>>, << "A" >>, << "B" >>, << "A", "C" >>, << "B", "D" >> >>

\* the step hands a snapshot to on_update
Emits == Len(updates') > Len(updates)

\* the engine has seen the stop event set: at the per-entry check, or at
\* the loop condition with a directory still queued
ObservedAtEntry == hist.broke
ObservedAtLoop == hist.exit = "cancelled"

(***************************************************************************)
(* C29 as stated: once the engine has observed the cancellation signal, at *)
(* the per-entry check or at the loop condition, every snapshot it still   *)
(* emits is the final one with the sentinel.                               *)
(***************************************************************************)
C29_Original ==
  [][(Emits /\ (ObservedAtEntry \/ ObservedAtLoop))
       => updates'[Len(updates')].current_dir = DONE]_vars

(***************************************************************************)
(* C29 amended: once the loop condition has failed, the only snapshot      *)
(* still emitted is the final one with the sentinel.  After the per-entry  *)
(* check has broken out of the enumeration of directory d, the cadence     *)
(* test that follows the enumeration still runs: when it is due, one       *)
(* periodic snapshot with current_dir = d is emitted; no further directory *)
(* is dequeued, and the next snapshot is the final one.                    *)
(***************************************************************************)
OnlySentinelAfterLoopExit ==
  (Emits /\ hist.exit # "none") =>
    /\ pc = "final"
    /\ updates'[Len(updates')].current_dir = DONE

OnePeriodicAfterBreak ==
  (Emits /\ ObservedAtEntry /\ hist.exit = "none") =>
    /\ pc = "after"
    /\ pc' = "loop"
    /\ hist.event = "broke"
    /\ UpdateDue
    /\ updates'[Len(updates')].current_dir = current_dir

NoDequeueAfterBreak ==
  ObservedAtEntry =>
    /\ stop_event
    /\ pc \in {"after", "loop", "final", "done", "finished"}
    /\ hist.event = "broke"

C29_SnapshotsAfterObservation ==
  /\ []NoDequeueAfterBreak
  /\ [][OnlySentinelAfterLoopExit /\ OnePeriodicAfterBreak]_vars

\* the per-entry check broke out of the enumeration of A, and the cadence
\* test after it has just sent a periodic snapshot for A
C29_Witness ==
  /\ hist.broke
  /\ pc = "loop"
  /\ current_dir = << "A" >>
  /\ dirs_since_update = 0
  /\ updates # <<>>
  /\ LastUpdate.current_dir = << "A" >>
  /\ hist.exit = "none"

(***************************************************************************)
(* C30: no snapshot of an earlier scan is applied after a later scan was   *)
(* started.  `updates` holds the snapshots of the scanner built last, so   *)
(* the claim is: when start_scan builds a scanner, every snapshot the      *)
(* previous one posted has been applied and its completion handled, no     *)
(* callback of it is left; and every run of _apply_update happens while    *)
(* the scanner that produced the snapshot is the one the application       *)
(* holds, and shows that snapshot.                                         *)
(***************************************************************************)
\* a callback posted by the scanner waits to run
CallbackPending ==
  \/ ui.applied < Len(updates)
  \/ (done_msgs # <<>> /\ ui.scanner)

NothingPendingAtStart == NewScanner => ~CallbackPending

AppliedWhileActive ==
  (ui'.applied # ui.applied /\ ~NewScanner) =>
    /\ ui.scanner
    /\ ui'.scanner
    /\ ui'.scans = ui.scans
    /\ ui'.applied \in 1..Len(updates)
    /\ ui'.file_paths = Paths(HeldTopFiles(updates[ui'.applied]))
    /\ ui'.dir_paths = Paths(HeldTopDirs(updates[ui'.applied]))

C30_NoStaleSnapshot ==
  /\ [](~ui.scanner => ui.applied = Len(updates))
  /\ [][NothingPendingAtStart /\ AppliedWhileActive]_vars

\* the second scanner has sent its final snapshot, with both files, and
\* _apply_update has shown it while that scanner is still held
C30_Witness ==
  /\ ui.scans = 2
  /\ ui.scanner
  /\ ~stop_event
  /\ Finished
  /\ ui.applied = 1
  /\ ui.file_paths = << << "A", "g" >>, << "f" >> >>
  /\ ui.dir_paths = << << "A" >>, <<>> >>

\* the button is released on a press that is remembered
Release == NoDialog /\ ui.drag_index # 0 /\ ui'.drag_index = 0

(***************************************************************************)
(* C31: the file a release of the mouse button acts on, opened on a click  *)
(* or offered to the confirmation dialog on a drop, is the file that was   *)
(* displayed in the pressed row when the button went down, whatever        *)
(* snapshots were applied to the file list in between.                     *)
(***************************************************************************)
ActsOnPressed ==
  Release =>
    /\ ReleasedFile(ui) \in {<<>>, ui.pressed}
    /\ ui'.dialog # <<>> => ui'.dialog = ui.pressed

C31_ReleaseActsOnPressed == [][ActsOnPressed]_vars

(***************************************************************************)
(* C32: a file that went to the recycle bin and whose row was removed from *)
(* the displayed file list is not displayed again by a later snapshot of   *)
(* the same scan: no file trashed since the scan was started is in         *)
(* _file_paths.                                                            *)
(***************************************************************************)
C32_TrashedStaysGone ==
  \A p \in hist.trashed : p \notin Range(ui.file_paths)

(***************************************************************************)
(* C33: in every state the structures of the engine agree.  The aggregate  *)
(* values sum to the sizes of the files counted so far; top_files holds    *)
(* min(max_results, scanned_files) entries; every entry of top_files is a  *)
(* regular file of a visited directory, listed once, with the size the     *)
(* filesystem gives it, and the aggregate of that directory is at least    *)
(* the sizes of its files in top_files together.                           *)
(***************************************************************************)
Parent(path) == SubSeq(path, 1, Len(path) - 1)

\* the aggregate value of directory d, -1 when it has no entry
AggregateOf(d) ==
  IF InDirSizes(d)
    THEN dir_sizes[CHOOSE i \in 1..Len(dir_sizes) : dir_sizes[i][1] = d][2]
    ELSE -1

\* the sizes of the entries of top_files that lie directly in d, summed
RankedIn(d) ==
  LET In(x) == Parent(x[1]) = d
  IN SumSeq(Sizes(SelectSeq(top_files, In)))

\* x is a regular file in a visited directory, with its size
IsCountedFile(x) ==
  /\ x[1] # <<>>
  /\ InDirSizes(Parent(x[1]))
  /\ \E i \in 1..Len(Scandir(Parent(x[1]))) :
       LET e == Scandir(Parent(x[1]))[i]
       IN e.name = x[1][Len(x[1])] /\ e.kind = "file" /\ e.size = x[2]

C33_StructuresAgree ==
  /\ SumSeq(Sizes(dir_sizes)) = SumSeq(hist.offers)
  /\ scanned_files = Len(hist.offers)
  /\ Len(top_files) = Min(max_results, scanned_files)
  /\ \A i \in 1..Len(top_files) :
       /\ IsCountedFile(top_files[i])
       /\ RankedIn(Parent(top_files[i][1])) <= AggregateOf(Parent(top_files[i][1]))
       /\ \A j \in 1..Len(top_files) :
            top_files[i][1] = top_files[j][1] => i = j

\* both files of the nested tree are counted and the ranking, of one entry,
\* holds the larger one, whose size is the aggregate of A
C33_Witness ==
  /\ tree = 2
  /\ max_results = 1
  /\ scanned_files = 2
  /\ top_files = << << << "A", "a" >>, 300 >> >>
  /\ dir_sizes = << << <<>>, 0 >>, << << "A" >>, 300 >>, << << "B" >>, 10 >> >>

(***************************************************************************)
(* C34: ties in top_files go by the order of the offers.  After any        *)
(* sequence of offers, top_files is the first max_results offers in the    *)
(* order "larger size first, earlier offer first among equal sizes", which *)
(* depends on nothing but the sequence of offers: two scans that make the  *)
(* same offers in the same order hold the same top_files.  An offer to a   *)
(* full ranking whose size equals the smallest size held leaves the        *)
(* ranking as it is.                                                       *)
(***************************************************************************)
\* the path of the n-th offer
OfferPath(n) == << "offer", ToString(n) >>

\* the place of the n-th offer among all offers made: after the larger ones
\* and the earlier ones of its size
PlaceOf(offers, n) ==
  1 + Cardinality({ m \in 1..Len(offers) :
                      \/ offers[m] > offers[n]
                      \/ (offers[m] = offers[n] /\ m < n) })

\* the ranking of k entries that the offers determine
RankingOf(offers, k) ==
  [p \in 1..Min(k, Len(offers)) |->
     LET n == CHOOSE m \in 1..Len(offers) : PlaceOf(offers, m) = p
     IN << OfferPath(n), offers[n] >>]

TiesByOfferOrder == top_files = RankingOf(hist.offers, max_results)

TieNeverDisplaces ==
  (Len(hist'.offers) > Len(hist.offers)
     /\ Len(top_files) = max_results
     /\ hist'.offers[Len(hist'.offers)] = top_files[Len(top_files)][2])
    => top_files' = top_files

C34_TiesByInsertionOrder == []TiesByOfferOrder /\ [][TieNeverDisplaces]_vars

\* three offers of size 2 to a ranking of two: the first and the second
\* are held, in that order, the third did not displace either
C34_Witness ==
  /\ max_results = 2
  /\ hist.offers = << 2, 2, 2 >>
  /\ top_files = << << OfferPath(1), 2 >>, << OfferPath(2), 2 >> >>

(***************************************************************************)
(* C35: when stop() is called before the thread has performed its first    *)
(* test of the while condition, before start() included, the scan visits   *)
(* no directory: the root stays in the queue, unvisited, the counters stay *)
(* 0 and the structures empty; the thread goes from the failed test to the *)
(* end, where exactly one snapshot was emitted, the sentinel with          *)
(* scanned_dirs = 0, scanned_files = 0 and empty rankings, and on_done     *)
(* got "Scan stopped.".                                                    *)
(***************************************************************************)
IsEmptySentinel(u) ==
  /\ u.current_dir = DONE
  /\ u.scanned_dirs = 0
  /\ u.scanned_files = 0
  /\ u.top_dirs = <<>>
  /\ u.top_files = <<>>

NothingVisited ==
  hist.stopped_early =>
    /\ stop_event
    /\ pc \in {"new", "loop", "final", "done", "finished"}
    /\ dir_queue = << <<>> >>
    /\ visited_realpaths = {}
    /\ hist.visits = <<>>
    /\ scanned_dirs = 0
    /\ scanned_files = 0
    /\ dir_sizes = <<>>
    /\ top_files = <<>>
    /\ Len(updates) <= 1
    /\ \A i \in 1..Len(updates) : IsEmptySentinel(updates[i])
    /\ pc \in {"done", "finished"} => Len(updates) = 1
    /\ Finished => done_msgs = << STOPPED >>
    /\ ~Finished => done_msgs = <<>>

C35_StopBeforeFirstCheck ==
  /\ []NothingVisited
  /\ (hist.stopped_early ~> Finished)

\* stop() came before start(); the thread ran to its end
C35_Witness ==
  /\ hist.stopped_early
  /\ Finished
  /\ Len(updates) = 1
  /\ IsEmptySentinel(updates[1])
  /\ done_msgs = << STOPPED >>
  /\ dir_queue = << <<>> >>

====
